---- MODULE Spec2Model ----
(***************************************************************************)
(* Model of run_batch1.py: the per-company recruiting-information pipeline *)
(* (process_company and its helpers) and the batch loop of main.           *)
(*                                                                         *)
(* A Python str is a sequence of one-character strings, so that strip,     *)
(* lower, replace, startswith, the `in` substring test and urljoin are     *)
(* computed character by character, as the code computes them.             *)
(* A parsed HTML page is the sequence of its <a> elements in document      *)
(* order; an element is [has_href, href, text].                            *)
(***************************************************************************)
EXTENDS Integers, Sequences, FiniteSets, TLC

(***************************************************************************)
(* Python str operations                                                   *)
(***************************************************************************)
UPPERCASE == <<"A","B","C","D","E","F","G","H","I","J","K","L","M",
               "N","O","P","Q","R","S","T","U","V","W","X","Y","Z">>
LOWERCASE == <<"a","b","c","d","e","f","g","h","i","j","k","l","m",
               "n","o","p","q","r","s","t","u","v","w","x","y","z">>
DIGITS == {"0","1","2","3","4","5","6","7","8","9"}
WHITESPACE == {" ", "\t", "\n"}

Range(s) == {s[i] : i \in 1..Len(s)}

\* the one value of a singleton set; { F(v) : v \in {e} } evaluates e once
The(S) == CHOOSE y \in S : TRUE

\* c.lower() for one character
lower_char(c) ==
    IF \E i \in 1..Len(UPPERCASE) : UPPERCASE[i] = c
    THEN LOWERCASE[CHOOSE i \in 1..Len(UPPERCASE) : UPPERCASE[i] = c]
    ELSE c

\* s.lower()
lower(s) == The({ [i \in 1..Len(v) |-> lower_char(v[i])] : v \in {s} })

\* s[a:] for a 0-based start a
slice_from(s, a) == IF a >= Len(s) THEN <<>> ELSE SubSeq(s, a + 1, Len(s))

\* s[:b] for a 0-based end b
slice_to(s, b) == IF b <= 0 THEN <<>> ELSE SubSeq(s, 1, IF b > Len(s) THEN Len(s) ELSE b)

\* s.startswith(p)
startswith(s, p) == \E v \in {s} : Len(p) <= Len(v) /\ SubSeq(v, 1, Len(p)) = p

\* sub in s
contains(s, sub) ==
    \E v \in {s} : \E i \in 0..(Len(v) - Len(sub)) : SubSeq(v, i + 1, i + Len(sub)) = sub

\* s.strip()
strip(s) ==
    The({ The({ IF keep = {} THEN <<>>
                ELSE SubSeq(v, CHOOSE i \in keep : \A j \in keep : i <= j,
                               CHOOSE i \in keep : \A j \in keep : j <= i)
                : keep \in {{i \in 1..Len(v) : v[i] \notin WHITESPACE}} })
          : v \in {s} })

\* s.replace(old, new) for a one-character old
RECURSIVE replace_from(_, _, _)
replace_from(s, old, new) ==
    IF s = <<>> THEN <<>>
    ELSE (IF Head(s) = old THEN new ELSE <<Head(s)>>) \o replace_from(Tail(s), old, new)

replace(s, old, new) == The({ replace_from(v, old, new) : v \in {s} })

\* s.find(c) for a one-character c: the 0-based index of its first occurrence, or -1
find(s, c) ==
    The({ IF \E i \in 1..Len(v) : v[i] = c
          THEN (CHOOSE i \in 1..Len(v) : v[i] = c /\ \A j \in 1..(i-1) : v[j] # c) - 1
          ELSE -1 : v \in {s} })

\* s.rfind(c): the 0-based index of its last occurrence, or -1
rfind(s, c) ==
    The({ IF \E i \in 1..Len(v) : v[i] = c
          THEN (CHOOSE i \in 1..Len(v) : v[i] = c /\ \A j \in (i+1)..Len(v) : v[j] # c) - 1
          ELSE -1 : v \in {s} })

(***************************************************************************)
(* CONFIG                                                                  *)
(***************************************************************************)
\* the output columns
COLUMNS ==
    <<"Company Name", "Website URL", "Linkedin URL", "Careers Page URL",
      "Job listings page URL", "Provider",
      "job post1 URL", "job post1 title", "job post1 location", "job post1 date",
      "job post2 URL", "job post2 title", "job post2 location", "job post2 date",
      "job post3 URL", "job post3 title", "job post3 location", "job post3 date">>

CAREERS_KEYWORDS ==
    << <<"c","a","r","e","e","r">>, <<"c","a","r","e","e","r","s">>,
       <<"j","o","b","s">>, <<"j","o","i","n">> >>

\* the dict keeps insertion order, which is the order detect_ats iterates in
ATS_PATTERNS ==
    << [name |-> "Personio",     pattern |-> <<"p","e","r","s","o","n","i","o",".","c","o","m">>],
       [name |-> "Teamtailor",   pattern |-> <<"t","e","a","m","t","a","i","l","o","r",".","c","o","m">>],
       [name |-> "Zoho Recruit", pattern |-> <<"z","o","h","o","r","e","c","r","u","i","t",".","c","o","m">>],
       [name |-> "Lever",        pattern |-> <<"l","e","v","e","r",".","c","o">>],
       [name |-> "Greenhouse",   pattern |-> <<"g","r","e","e","n","h","o","u","s","e",".","i","o">>] >>

\* the alternatives of the job-title regular expression
JOB_TITLE_WORDS ==
    { <<"e","n","g","i","n","e","e","r">>, <<"m","a","n","a","g","e","r">>,
      <<"d","e","v","e","l","o","p","e","r">>, <<"a","n","a","l","y","s","t">>,
      <<"d","e","s","i","g","n","e","r">>, <<"s","p","e","c","i","a","l","i","s","t">>,
      <<"i","n","t","e","r","n">>, <<"c","o","n","s","u","l","t","a","n","t">>,
      <<"c","o","o","r","d","i","n","a","t","o","r">>, <<"t","e","c","h","n","i","c","i","a","n">> }

\* the TLD list of process_company, in the order it is iterated
TLDS == << <<"c","o","m">>, <<"o","r","g">>, <<"i","o">>, <<"a","i">>, <<"n","e","t">>, <<"c","o">> >>

HTTP == <<"h","t","t","p">>
HTTPS_PREFIX == <<"h","t","t","p","s",":","/","/">>
LINKEDIN_PREFIX ==
    <<"h","t","t","p","s",":","/","/","w","w","w",".","l","i","n","k","e","d","i","n",
      ".","c","o","m","/","c","o","m","p","a","n","y","/">>

\* the number of job-post column groups process_company fills
JOB_SLOTS == 3
\* the number of jobs at which scrape_jobs_simple stops scanning
MAX_JOBS == 3
\* the first status code that counts as a failure
FAIL_STATUS == 400

(***************************************************************************)
(* urllib.parse.urljoin, for references without query or fragment         *)
(* and without "." or ".." segments                                        *)
(***************************************************************************)
SCHEME_CHARS == Range(LOWERCASE) \cup Range(UPPERCASE) \cup DIGITS \cup {"+", "-", "."}
LETTERS == Range(LOWERCASE) \cup Range(UPPERCASE)

uses_relative ==
    { <<>>, <<"h","t","t","p">>, <<"h","t","t","p","s">>, <<"f","t","p">>, <<"f","i","l","e">> }

\* whether urlsplit finds a scheme in front of the first ":"
has_scheme(url) ==
    \E i \in {find(url, ":")} :
        i > 0 /\ url[1] \in LETTERS /\ \A j \in 1..i : url[j] \in SCHEME_CHARS

\* the netloc and the path of what follows the scheme; raises ValueError when the
\* netloc holds an unbalanced square bracket
split_netloc(sch, rest) ==
    IF startswith(rest, <<"/", "/">>)
    THEN The({ The({ [raised |-> ("[" \in Range(slice_to(after, delim)))
                                  # ("]" \in Range(slice_to(after, delim))),
                      scheme |-> sch,
                      netloc |-> slice_to(after, delim),
                      path   |-> slice_from(after, delim)]
                     : delim \in {IF find(after, "/") = -1 THEN Len(after) ELSE find(after, "/")} })
               : after \in {slice_from(rest, 2)} })
    ELSE [raised |-> FALSE, scheme |-> sch, netloc |-> <<>>, path |-> rest]

\* urlsplit(url, default): scheme (lowercased), netloc and path
urlsplit(url, default) ==
    The({ IF has_scheme(v)
          THEN split_netloc(lower(slice_to(v, find(v, ":"))), slice_from(v, find(v, ":") + 1))
          ELSE split_netloc(default, v)
          : v \in {url} })

\* urlunsplit
urlunsplit(scheme, netloc, path) ==
    The({ IF scheme # <<>> THEN scheme \o <<":">> \o p1 ELSE p1
          : p1 \in { IF netloc # <<>> \/ (scheme # <<>> /\ ~startswith(path, <<"/", "/">>))
                     THEN <<"/", "/">> \o netloc
                          \o (IF path # <<>> /\ path[1] # "/" THEN <<"/">> ELSE <<>>) \o path
                     ELSE path } })

\* the directory of the base path, to which a relative path is appended
base_dir(b) ==
    IF rfind(b.path, "/") = -1
    THEN (IF b.netloc # <<>> THEN <<"/">> ELSE <<>>)
    ELSE slice_to(b.path, rfind(b.path, "/") + 1)

\* urljoin once base and url are split into b and u
join_parts(base, url, b, u) ==
    IF b.raised \/ u.raised THEN [raised |-> TRUE, value |-> <<>>]
    ELSE IF u.scheme # b.scheme \/ u.scheme \notin uses_relative
         THEN [raised |-> FALSE, value |-> url]
    ELSE IF u.netloc # <<>>
         THEN [raised |-> FALSE, value |-> urlunsplit(u.scheme, u.netloc, u.path)]
    ELSE IF u.path = <<>>
         THEN [raised |-> FALSE, value |-> urlunsplit(u.scheme, b.netloc, b.path)]
    ELSE IF u.path[1] = "/"
         THEN [raised |-> FALSE, value |-> urlunsplit(u.scheme, b.netloc, u.path)]
    ELSE [raised |-> FALSE, value |-> urlunsplit(u.scheme, b.netloc, base_dir(b) \o u.path)]

\* urljoin(base, url): [raised, value]
urljoin(base, url) ==
    The({ IF bv = <<>> THEN [raised |-> FALSE, value |-> uv]
          ELSE IF uv = <<>> THEN [raised |-> FALSE, value |-> bv]
          ELSE The({ The({ join_parts(bv, uv, b, u) : u \in {urlsplit(uv, b.scheme)} })
                     : b \in {urlsplit(bv, <<>>)} })
          : bv \in {base}, uv \in {url} })

(***************************************************************************)
(* HELPERS                                                                 *)
(***************************************************************************)
\* what requests hands back: an exception, or a response with a status and a page
Exception == [exc |-> TRUE, status_code |-> 0, text |-> <<>>]
Response(status, html) == [exc |-> FALSE, status_code |-> status, text |-> html]

\* None, and a kept response, as safe_get returns them
None == [ok |-> FALSE, text |-> <<>>]

\* safe_get with the status test off by one: 400 is kept as a success
safe_get_keeps_400(rsp) ==
    IF rsp.exc THEN None
    ELSE IF rsp.status_code <= FAIL_STATUS THEN [ok |-> TRUE, text |-> rsp.text]
    ELSE None

\* safe_get, given what requests.get did
safe_get(rsp) ==
    IF rsp.exc THEN None
    ELSE IF rsp.status_code < FAIL_STATUS THEN [ok |-> TRUE, text |-> rsp.text]
    ELSE None

\* head_ok with the except branch returning True
head_ok_true_on_error(rsp) ==
    IF rsp.exc THEN TRUE ELSE rsp.status_code < FAIL_STATUS

\* head_ok, given what requests.head did
head_ok(rsp) ==
    IF rsp.exc THEN FALSE ELSE rsp.status_code < FAIL_STATUS

\* soup.select("a[href]"): the <a> elements that carry an href attribute
select_a_href(html) == SelectSeq(html, LAMBDA a : a.has_href)

\* a.get_text(" ", strip=True)
get_text(a) == strip(a.text)

\* any(kw in href.lower() or kw in text for kw in CAREERS_KEYWORDS)
careers_match(href, text) ==
    \E k \in 1..Len(CAREERS_KEYWORDS) :
        contains(lower(href), CAREERS_KEYWORDS[k]) \/ contains(text, CAREERS_KEYWORDS[k])

\* the body of the loop for one anchor, with href and text as the code binds them
careers_href(base_url, href) ==
    IF ~startswith(href, HTTP) THEN urljoin(base_url, href)
    ELSE [raised |-> FALSE, value |-> href]

RECURSIVE find_careers_loop(_, _)
find_careers_loop(base_url, anchors) ==
    IF anchors = <<>> THEN [raised |-> FALSE, value |-> <<>>]
    ELSE The({ IF careers_match(href, text) THEN careers_href(base_url, href)
               ELSE find_careers_loop(base_url, Tail(anchors))
               : href \in {strip(Head(anchors).href)},
                 text \in {lower(get_text(Head(anchors)))} })

\* find_careers(base_url, html): [raised, value]
find_careers(base_url, html) == find_careers_loop(base_url, select_a_href(html))

RECURSIVE detect_ats_loop(_, _)
detect_ats_loop(url, k) ==
    IF k > Len(ATS_PATTERNS) THEN (IF url # <<>> THEN "Internal" ELSE "")
    ELSE IF url # <<>> /\ contains(url, ATS_PATTERNS[k].pattern) THEN ATS_PATTERNS[k].name
    ELSE detect_ats_loop(url, k + 1)

\* detect_ats with the last matching pattern winning
detect_ats_last_match(url) ==
    IF url = <<>> THEN ""
    ELSE IF \A k \in 1..Len(ATS_PATTERNS) : ~contains(url, ATS_PATTERNS[k].pattern) THEN "Internal"
    ELSE ATS_PATTERNS[CHOOSE k \in 1..Len(ATS_PATTERNS) :
                         /\ contains(url, ATS_PATTERNS[k].pattern)
                         /\ \A m \in (k + 1)..Len(ATS_PATTERNS) :
                              ~contains(url, ATS_PATTERNS[m].pattern)].name

\* detect_ats without the test for an empty url in its last line
detect_ats_never_empty(url) ==
    IF detect_ats_loop(url, 1) = "" THEN "Internal" ELSE detect_ats_loop(url, 1)

\* detect_ats(url)
detect_ats(url) == detect_ats_loop(url, 1)

\* the title test without re.I
title_match_case_sensitive(title) == \E w \in JOB_TITLE_WORDS : contains(title, w)

\* re.search(r"(engineer|manager|...)", title, re.I)
title_match(title) == \E low \in {lower(title)} : \E w \in JOB_TITLE_WORDS : contains(low, w)

\* one iteration of the loop over the anchors, from the jobs collected so far:
\* the jobs after it, whether urljoin raised, and whether the loop breaks
scrape_step(listings_url, a, jobs) ==
    The({ IF title = <<>> THEN [raised |-> FALSE, break |-> FALSE, value |-> jobs]
          ELSE IF title_match(title)
          THEN IF a.href = <<>> THEN [raised |-> FALSE, break |-> FALSE, value |-> jobs]
               ELSE The({ IF job_url.raised THEN [raised |-> TRUE, break |-> FALSE, value |-> <<>>]
                          ELSE [raised |-> FALSE, break |-> Len(jobs) + 1 >= MAX_JOBS,
                                value |-> Append(jobs, [url |-> job_url.value, title |-> title,
                                                        location |-> <<>>, date |-> <<>>])]
                          : job_url \in { IF ~startswith(a.href, HTTP)
                                          THEN urljoin(listings_url, a.href)
                                          ELSE [raised |-> FALSE, value |-> a.href] } })
          ELSE [raised |-> FALSE, break |-> Len(jobs) >= MAX_JOBS, value |-> jobs]
          : title \in {get_text(a)} })

RECURSIVE scrape_loop(_, _, _)
scrape_loop(listings_url, anchors, acc) ==
    IF anchors = <<>> \/ acc.raised \/ acc.break THEN acc
    ELSE The({ scrape_loop(listings_url, Tail(anchors), next)
               : next \in {scrape_step(listings_url, Head(anchors), acc.value)} })

\* scrape_jobs_simple(listings_url), given r = safe_get(listings_url): [raised, value]
scrape_jobs_simple(listings_url, r) ==
    IF ~r.ok THEN [raised |-> FALSE, value |-> <<>>]
    ELSE LET out == scrape_loop(listings_url, select_a_href(r.text),
                                [raised |-> FALSE, break |-> FALSE, value |-> <<>>])
         IN  [raised |-> out.raised, value |-> out.value]

(***************************************************************************)
(* The inputs: company names, pages, and what the network may answer       *)
(***************************************************************************)
MaxCompanies == 2
MaxHomeAnchors == 2
MaxListingAnchors == 4

A(has_href, href, text) == [has_href |-> has_href, href |-> href, text |-> text]

\* "Ab" and " a B<TAB>"
Names == { <<"A","b">>, <<" ","a"," ","B","\t">> }

HomeAnchors ==
    { \* <a href="/careers">Careers</a>
      A(TRUE, <<"/","c","a","r","e","e","r","s">>, <<"C","a","r","e","e","r","s">>),
      \* <a href="https://jobs.lever.co/ab">Work with us</a>
      A(TRUE, <<"h","t","t","p","s",":","/","/","j","o","b","s",".","l","e","v","e","r",".","c","o","/","a","b">>,
              <<"W","o","r","k"," ","w","i","t","h"," ","u","s">>),
      \* <a href="/about">About</a>
      A(TRUE, <<"/","a","b","o","u","t">>, <<"A","b","o","u","t">>),
      \* <a href="http-jobs.html">Open roles</a>
      A(TRUE, <<"h","t","t","p","-","j","o","b","s",".","h","t","m","l">>, <<"O","p","e","n"," ","r","o","l","e","s">>),
      \* <a href="//[careers">Careers</a>
      A(TRUE, <<"/","/","[","c","a","r","e","e","r","s">>, <<"C","a","r","e","e","r","s">>),
      \* <a href="https://www.linkedin.com/company/ab/">Join us</a>
      A(TRUE, <<"h","t","t","p","s",":","/","/","w","w","w",".","l","i","n","k","e","d","i","n",".","c","o","m","/","c","o","m","p","a","n","y","/","a","b","/">>,
              <<"J","o","i","n"," ","u","s">>),
      \* <a>Careers</a>
      A(FALSE, <<>>, <<"C","a","r","e","e","r","s">>),
      \* <a href=" /Team ">JOIN</a>
      A(TRUE, <<" ","/","T","e","a","m"," ">>, <<"J","O","I","N">>),
      \* <a href="https://ab.personio.com/lever.co">Jobs</a>
      A(TRUE, <<"h","t","t","p","s",":","/","/","a","b",".","p","e","r","s","o","n","i","o",".","c","o","m","/","l","e","v","e","r",".","c","o">>,
              <<"J","o","b","s">>),
      \* <a href="">Careers</a>
      A(TRUE, <<>>, <<"C","a","r","e","e","r","s">>) }

ListingAnchors ==
    { \* <a href="/jobs/42">Senior Engineer</a>
      A(TRUE, <<"/","j","o","b","s","/","4","2">>, <<"S","e","n","i","o","r"," ","E","n","g","i","n","e","e","r">>),
      \* <a href="https://jobs.lever.co/ab/1">DATA ANALYST</a>
      A(TRUE, <<"h","t","t","p","s",":","/","/","j","o","b","s",".","l","e","v","e","r",".","c","o","/","a","b","/","1">>,
              <<"D","A","T","A"," ","A","N","A","L","Y","S","T">>),
      \* <a href="">Product Manager</a>
      A(TRUE, <<>>, <<"P","r","o","d","u","c","t"," ","M","a","n","a","g","e","r">>),
      \* <a href="/about">About us</a>
      A(TRUE, <<"/","a","b","o","u","t">>, <<"A","b","o","u","t"," ","u","s">>),
      \* <a href="/engineer"> </a>
      A(TRUE, <<"/","e","n","g","i","n","e","e","r">>, <<" ">>),
      \* <a>Designer</a>
      A(FALSE, <<>>, <<"D","e","s","i","g","n","e","r">>) }

\* <a href="//[x">Intern</a>
BadListingAnchor == A(TRUE, <<"/","/","[","x">>, <<"I","n","t","e","r","n">>)

\* the sequences over S of length at most n
SeqsUpTo(S, n) == UNION { [1..k -> S] : k \in 0..n }

HomePages == SeqsUpTo(HomeAnchors, MaxHomeAnchors)
ListingPages == SeqsUpTo(ListingAnchors, MaxListingAnchors)

CareersPage == << A(TRUE, <<"/","c","a","r","e","e","r","s">>, <<"C","a","r","e","e","r","s">>) >>
JobsPage == << A(TRUE, <<"/","j","o","b","s","/","4","2">>, <<"S","e","n","i","o","r"," ","E","n","g","i","n","e","e","r">>) >>

\* The web a run meets: the TLDs (by position in TLDS) whose candidate answers a
\* HEAD with a status below 400, and which pages its sites may serve.
\* every subset of live TLDs, one homepage and one listings page
PlainWebs == { [live |-> l, pages |-> "plain"] : l \in SUBSET (1..Len(TLDS)) }
\* every homepage
HomepageWebs == { [live |-> {1}, pages |-> "homepages"] }
\* every listings page
ListingWebs == { [live |-> {2}, pages |-> "listings"] }

\* the pages a homepage may hold in web w
home_pages(w) ==
    CASE w.pages = "plain" -> {CareersPage}
      [] w.pages = "homepages" -> HomePages
      [] w.pages = "listings" -> {CareersPage}

\* the pages a listings page may hold in web w
listing_pages(w) ==
    CASE w.pages = "plain" -> {JobsPage}
      [] w.pages = "homepages" -> {JobsPage, <<BadListingAnchor>>}
      [] w.pages = "listings" -> ListingPages

\* a prior output file: absent, or holding rows
OldRow(n) ==
    [c \in Range(COLUMNS) |->
        IF c = "Company Name" THEN n ELSE IF c = "Provider" THEN "" ELSE <<>>]
Existing ==
    { [exists |-> FALSE, rows |-> <<>>],
      [exists |-> TRUE, rows |-> << OldRow(<<"O","l","d">>), OldRow(<<"C","o">>) >>] }

\* the webs in which a batch of several companies is run
BatchWebs ==
    { [live |-> l, pages |-> "plain"] : l \in {{}, {2}} }

\* a run of main: the web, the names of df_batch and the prior output file
Runs ==
    { [web |-> w, input |-> <<n>>, existing |-> [exists |-> FALSE, rows |-> <<>>]] :
        w \in PlainWebs \cup HomepageWebs, n \in Names }
    \cup
    { [web |-> w, input |-> << <<"A","b">> >>, existing |-> [exists |-> FALSE, rows |-> <<>>]] :
        w \in ListingWebs }
    \cup
    { [web |-> w, input |-> inp, existing |-> e] :
        w \in BatchWebs, inp \in SeqsUpTo(Names, MaxCompanies), e \in Existing }

StatusCodes == {200, 399, 400}

\* requests raises before sending unless the URL is an http(s) URL it can parse
can_send(url) ==
    /\ \/ startswith(lower(url), <<"h","t","t","p",":","/","/">>)
       \/ startswith(lower(url), HTTPS_PREFIX)
    /\ ~urlsplit(url, <<>>).raised

(***************************************************************************)
(* State                                                                   *)
(***************************************************************************)
VARIABLES
    web,        \* the web of this run
    input,      \* df_batch["Company Name"], in row order
    existing,   \* the output file as main finds it
    output,     \* the output file as main leaves it
    results,    \* main: results
    i,          \* main: the number of rows of df_batch iterated so far
    pc,         \* where the run is
    name_clean, website, linkedin, careers, jobs_url, provider, jobs,  \* process_company
    tld,        \* process_company: position in the TLD list
    resp,       \* process_company: resp
    r,          \* scrape_jobs_simple: r
    log         \* the requests sent so far, in order

vars == <<web, input, existing, output, results, i, pc, name_clean, website, linkedin,
          careers, jobs_url, provider, jobs, tld, resp, r, log>>

locals == <<name_clean, website, linkedin, careers, jobs_url, provider, jobs, tld, resp, r>>

Init ==
    /\ \E run \in Runs :
        /\ web = run.web
        /\ input = run.input
        /\ existing = run.existing
        /\ output = run.existing
    /\ results = <<>>
    /\ i = 0
    /\ pc = "main"
    /\ name_clean = <<>> /\ website = <<>> /\ linkedin = <<>> /\ careers = <<>>
    /\ jobs_url = <<>> /\ provider = "" /\ jobs = <<>>
    /\ tld = 1
    /\ resp = None
    /\ r = None
    /\ log = <<>>

\* what requests.head(url) may do for the candidate at position k of TLDS
HeadOutcomes(url, k) ==
    IF can_send(url) /\ k \in web.live
    THEN { Response(s, <<>>) : s \in {s \in StatusCodes : s < 400} }
    ELSE { Response(s, <<>>) : s \in {s \in StatusCodes : s >= 400} } \cup {Exception}

\* what requests.get(url) may do; an error status comes with a page too
GetOutcomes(url, pages) ==
    IF can_send(url)
    THEN { Response(s, html) : s \in StatusCodes, html \in pages } \cup {Exception}
    ELSE {Exception}

\* a request as the log keeps it: which company and step sent it, and whether it
\* failed (a transport error, or a status of 400 or more)
Sent(step, method, url, rsp) ==
    [company |-> i + 1, step |-> step, method |-> method, url |-> url,
     failed |-> (rsp.exc \/ rsp.status_code >= 400)]

(***************************************************************************)
(* process_company                                                         *)
(***************************************************************************)
\* main calls process_company(name): lines 104-108
Enter ==
    /\ pc = "main"
    /\ i < Len(input)
    /\ name_clean' = strip(input[i + 1])
    /\ linkedin' = LINKEDIN_PREFIX \o replace(lower(strip(input[i + 1])), " ", <<"-">>) \o <<"/">>
    /\ website' = <<>> /\ careers' = <<>> /\ jobs_url' = <<>> /\ provider' = ""
    /\ tld' = 1
    /\ pc' = "guess"
    /\ UNCHANGED <<web, input, existing, output, results, i, jobs, resp, r, log>>

\* test_url without the removal of spaces
test_url_keeps_spaces(k) == HTTPS_PREFIX \o lower(name_clean) \o <<".">> \o TLDS[k]

\* the candidate URL of the TLD at position k: line 112
test_url(k) == HTTPS_PREFIX \o replace(lower(name_clean), " ", <<>>) \o <<".">> \o TLDS[k]

\* one iteration of the TLD loop: lines 111-115
Probe ==
    /\ pc = "guess"
    /\ \E rsp \in HeadOutcomes(test_url(tld), tld) :
        /\ log' = Append(log, Sent("probe", "HEAD", test_url(tld), rsp))
        /\ IF head_ok(rsp)
           THEN website' = test_url(tld) /\ pc' = "careers" /\ tld' = tld
           ELSE /\ website' = website
                /\ IF tld < Len(TLDS) THEN tld' = tld + 1 /\ pc' = "guess"
                   ELSE tld' = tld /\ pc' = "careers"
    /\ UNCHANGED <<web, input, existing, output, results, i, name_clean, linkedin,
                   careers, jobs_url, provider, jobs, resp, r>>

\* find the careers page: lines 118-121
Careers ==
    /\ pc = "careers"
    /\ IF website # <<>>
       THEN \E rsp \in GetOutcomes(website, home_pages(web)) :
              /\ log' = Append(log, Sent("homepage", "GET", website, rsp))
              /\ resp' = safe_get(rsp)
              /\ IF safe_get(rsp).ok
                 THEN LET found == find_careers(website, safe_get(rsp).text)
                      IN  IF found.raised
                          THEN careers' = careers /\ pc' = "raised"
                          ELSE careers' = found.value /\ pc' = "listing"
                 ELSE careers' = careers /\ pc' = "listing"
       ELSE UNCHANGED <<log, resp, careers>> /\ pc' = "listing"
    /\ UNCHANGED <<web, input, existing, output, results, i, name_clean, website, linkedin,
                   jobs_url, provider, jobs, tld, r>>

\* website or careers or ""
listing_url_website_first(c, w) == IF w # <<>> THEN w ELSE IF c # <<>> THEN c ELSE <<>>

\* careers or website or ""
listing_url(c, w) == IF c # <<>> THEN c ELSE IF w # <<>> THEN w ELSE <<>>

\* the listings page, the provider and the jobs: lines 123-125
Listing ==
    /\ pc = "listing"
    /\ jobs_url' = listing_url(careers, website)
    /\ provider' = detect_ats(jobs_url')
    /\ IF jobs_url' # <<>>
       THEN \E rsp \in GetOutcomes(jobs_url', listing_pages(web)) :
              /\ log' = Append(log, Sent("listings", "GET", jobs_url', rsp))
              /\ r' = safe_get(rsp)
              /\ LET scraped == scrape_jobs_simple(jobs_url', safe_get(rsp))
                 IN  IF scraped.raised
                     THEN jobs' = jobs /\ pc' = "raised"
                     ELSE jobs' = scraped.value /\ pc' = "row"
       ELSE jobs' = <<>> /\ pc' = "row" /\ UNCHANGED <<log, r>>
    /\ UNCHANGED <<web, input, existing, output, results, i, name_clean, website, linkedin,
                   careers, tld, resp>>

JOB_COLUMNS ==
    << [url |-> "job post1 URL", title |-> "job post1 title",
        location |-> "job post1 location", date |-> "job post1 date"],
       [url |-> "job post2 URL", title |-> "job post2 title",
        location |-> "job post2 location", date |-> "job post2 date"],
       [url |-> "job post3 URL", title |-> "job post3 title",
        location |-> "job post3 location", date |-> "job post3 date"] >>

\* the columns of job slot k: lines 136-146
job_slot(js, k) ==
    IF k - 1 < Len(js)
    THEN (JOB_COLUMNS[k].url :> js[k].url) @@ (JOB_COLUMNS[k].title :> js[k].title)
         @@ (JOB_COLUMNS[k].location :> js[k].location) @@ (JOB_COLUMNS[k].date :> js[k].date)
    ELSE (JOB_COLUMNS[k].url :> <<>>) @@ (JOB_COLUMNS[k].title :> <<>>)
         @@ (JOB_COLUMNS[k].location :> <<>>) @@ (JOB_COLUMNS[k].date :> <<>>)

RECURSIVE job_slots(_, _)
job_slots(js, k) == IF k > JOB_SLOTS THEN <<>> ELSE job_slot(js, k) @@ job_slots(js, k + 1)

\* the row process_company returns: lines 127-148
make_row ==
    ("Company Name" :> name_clean) @@ ("Website URL" :> website)
    @@ ("Linkedin URL" :> linkedin) @@ ("Careers Page URL" :> careers)
    @@ ("Job listings page URL" :> jobs_url) @@ ("Provider" :> provider)
    @@ job_slots(jobs, 1)

\* process_company returns its row, main appends it and sleeps: lines 127-148, 158-159
Return ==
    /\ pc = "row"
    /\ results' = Append(results, make_row)
    /\ i' = i + 1
    /\ pc' = "main"
    /\ name_clean' = <<>> /\ website' = <<>> /\ linkedin' = <<>> /\ careers' = <<>>
    /\ jobs_url' = <<>> /\ provider' = "" /\ jobs' = <<>>
    /\ tld' = 1 /\ resp' = None /\ r' = None
    /\ UNCHANGED <<web, input, existing, output, log>>

(***************************************************************************)
(* main                                                                    *)
(***************************************************************************)
\* pd.concat with its arguments swapped
written_new_first(old, new) == IF old.exists THEN new \o old.rows ELSE new

\* the rows main writes: lines 161-169
written(old, new) == IF old.exists THEN old.rows \o new ELSE new

\* the loop is over: main writes the output file
Write ==
    /\ pc = "main"
    /\ i = Len(input)
    /\ output' = [exists |-> TRUE, rows |-> written(existing, results)]
    /\ pc' = "done"
    /\ UNCHANGED <<web, input, existing, results, i, locals, log>>

Next == Enter \/ Probe \/ Careers \/ Listing \/ Return \/ Write

Spec == Init /\ [][Next]_vars

(***************************************************************************)
(* Vocabulary of the properties                                            *)
(***************************************************************************)
\* a request failed: a transport error, or a status of 400 or more
Failed(e) == e.failed

\* the companies process_company has been entered for, and those it has returned for
Entered == 1..(IF pc \in {"main", "done"} THEN i ELSE i + 1)
Returned == 1..Len(results)

\* the positions in the log of the requests of company k, and those of one step
RequestsOf(k) == {n \in 1..Len(log) : log[n].company = k}
StepOf(k, step) == {n \in RequestsOf(k) : log[n].step = step}

\* the fields of company k: from its row once returned, from the locals before
WebsiteOf(k) == IF k \in Returned THEN results[k]["Website URL"] ELSE website
CareersOf(k) == IF k \in Returned THEN results[k]["Careers Page URL"] ELSE careers
LinkedinOf(k) == IF k \in Returned THEN results[k]["Linkedin URL"] ELSE linkedin

\* the columns of job slot k of a row are all empty
EmptySlot(row, k) ==
    /\ row[JOB_COLUMNS[k].url] = <<>> /\ row[JOB_COLUMNS[k].title] = <<>>
    /\ row[JOB_COLUMNS[k].location] = <<>> /\ row[JOB_COLUMNS[k].date] = <<>>

\* the position in a page of its first anchor with an href whose href or text
\* holds a careers keyword, 0 if there is none
FirstCareersAnchor(html) ==
    LET hits == {n \in 1..Len(html) :
                    /\ html[n].has_href
                    /\ \E k \in 1..Len(CAREERS_KEYWORDS) :
                         \/ contains(lower(html[n].href), CAREERS_KEYWORDS[k])
                         \/ contains(lower(html[n].text), CAREERS_KEYWORDS[k])}
    IN  IF hits = {} THEN 0 ELSE CHOOSE n \in hits : \A m \in hits : n <= m

\* a URL is absolute: it starts with a scheme
IsAbsolute(url) == has_scheme(url)

(***************************************************************************)
(* C1: for every company name and every combination of network outcomes,   *)
(* process_company ends without propagating a failure and returns a        *)
(* complete record: every column present, three job slots, and Company     *)
(* Name equal to the trimmed input.                                        *)
(***************************************************************************)
C1_NeverRaisesAndRowComplete ==
    /\ pc # "raised"
    /\ \A k \in Returned :
        /\ DOMAIN results[k] = Range(COLUMNS)
        /\ results[k]["Company Name"] = strip(input[k])

(***************************************************************************)
(* C7: find_careers returns the href of the first anchor in document order *)
(* whose lowercased href or text holds a careers keyword; the href it      *)
(* returns is always absolute (an absolute href unchanged, a relative one  *)
(* resolved against the base URL); and it returns the empty string if and  *)
(* only if no anchor matches.                                              *)
(***************************************************************************)
C7_FirstMatchAbsolute ==
    (pc = "listing" /\ resp.ok) =>
        LET n == FirstCareersAnchor(resp.text)
        IN  /\ (careers = <<>>) <=> (n = 0)
            /\ n # 0 =>
                /\ IsAbsolute(careers)
                /\ IF IsAbsolute(strip(resp.text[n].href))
                   THEN careers = strip(resp.text[n].href)
                   ELSE careers = urljoin(website, strip(resp.text[n].href)).value

\* a failed step leaves its result empty: a candidate whose probe failed is not
\* the website, a failed homepage fetch leaves no careers URL, a failed listings
\* fetch leaves no job
JobsEmptyOf(k) ==
    IF k \in Returned THEN \A s \in 1..JOB_SLOTS : EmptySlot(results[k], s) ELSE jobs = <<>>

FailedStepStaysEmpty ==
    \A k \in Entered :
        /\ \A n \in StepOf(k, "probe") : Failed(log[n]) => WebsiteOf(k) # log[n].url
        /\ \A n \in StepOf(k, "homepage") : Failed(log[n]) => CareersOf(k) = <<>>
        /\ \A n \in StepOf(k, "listings") : Failed(log[n]) => JobsEmptyOf(k)

(***************************************************************************)
(* C2, as stated: there are no retries; within one run of process_company  *)
(* every step makes a single attempt, a URL whose probe or fetch failed is *)
(* not requested again in that run, and the result of the failed step      *)
(* stays empty.                                                            *)
(***************************************************************************)
C2_FailedUrlNeverRequestedAgain ==
    /\ FailedStepStaysEmpty
    /\ \A a, b \in 1..Len(log) :
        (a < b /\ log[a].company = log[b].company /\ Failed(log[a]))
            => log[b].url # log[a].url

(***************************************************************************)
(* C2, amended: within one run of process_company every step makes a       *)
(* single attempt (each candidate is probed at most once, the homepage is  *)
(* fetched at most once, the listings page is fetched at most once) and    *)
(* the result of a failed step stays empty; a URL whose request failed is  *)
(* requested again only by the listings fetch, which goes to the website   *)
(* again when no careers URL was found.                                    *)
(***************************************************************************)
C2_SingleAttemptPerStep ==
    /\ FailedStepStaysEmpty
    /\ \A k \in Entered :
        /\ \A a, b \in StepOf(k, "probe") : a # b => log[a].url # log[b].url
        /\ Cardinality(StepOf(k, "homepage")) <= 1
        /\ Cardinality(StepOf(k, "listings")) <= 1
        /\ \A a, b \in RequestsOf(k) :
            (a < b /\ Failed(log[a]) /\ log[b].url = log[a].url)
                => log[b].step = "listings"

\* the homepage fetch failed, the listings fetch went to the same URL, and the row is returned
C2_Witness ==
    /\ Returned # {}
    /\ \E a \in StepOf(1, "homepage") : \E b \in StepOf(1, "listings") :
        /\ Failed(log[a]) /\ log[b].url = log[a].url
        /\ results[1]["Careers Page URL"] = <<>>

(***************************************************************************)
(* C3: in every record returned, the Job listings page URL is the Careers  *)
(* Page URL when that is non-empty, otherwise the Website URL when that is *)
(* non-empty, otherwise empty; the job extractor fetches the careers URL,  *)
(* never the website instead, once a careers link was found, even if that  *)
(* fetch fails.                                                            *)
(***************************************************************************)
C3_ListingUrlPreference ==
    \A k \in Returned :
        LET row == results[k]
        IN  /\ row["Job listings page URL"] =
                 (IF row["Careers Page URL"] # <<>> THEN row["Careers Page URL"]
                  ELSE IF row["Website URL"] # <<>> THEN row["Website URL"] ELSE <<>>)
            /\ \A n \in StepOf(k, "listings") :
                 /\ log[n].url = row["Job listings page URL"]
                 /\ row["Careers Page URL"] # <<>> => log[n].url = row["Careers Page URL"]

\* a careers link other than the website was found and fetching it failed
C3_Witness ==
    /\ Returned # {}
    /\ results[1]["Careers Page URL"] # <<>>
    /\ results[1]["Careers Page URL"] # results[1]["Website URL"]
    /\ results[1]["Job listings page URL"] = results[1]["Careers Page URL"]
    /\ \E n \in StepOf(1, "listings") : Failed(log[n])

(***************************************************************************)
(* C4: in every record returned, Provider is one of the five ATS labels,   *)
(* "Internal" or empty; it is empty iff the Job listings page URL is       *)
(* empty, "Internal" iff that URL is non-empty and holds none of the five  *)
(* signatures, and otherwise the first label, in the order Personio,       *)
(* Teamtailor, Zoho Recruit, Lever, Greenhouse, whose signature is a       *)
(* substring of that URL.                                                  *)
(***************************************************************************)
LabelOrder == <<"Personio", "Teamtailor", "Zoho Recruit", "Lever", "Greenhouse">>
SignatureOf(label) == (CHOOSE e \in Range(ATS_PATTERNS) : e.name = label).pattern
SignaturesIn(url) == {n \in 1..Len(LabelOrder) : contains(url, SignatureOf(LabelOrder[n]))}

C4_ProviderLabel ==
    \A k \in Returned :
        LET url  == results[k]["Job listings page URL"]
            p    == results[k]["Provider"]
            hits == SignaturesIn(url)
        IN  /\ p \in Range(LabelOrder) \cup {"Internal", ""}
            /\ (p = "") <=> (url = <<>>)
            /\ (p = "Internal") <=> (url # <<>> /\ hits = {})
            /\ (url # <<>> /\ hits # {}) =>
                 p = LabelOrder[CHOOSE n \in hits : \A m \in hits : n <= m]

\* a listings URL that holds two signatures, labelled with the earlier one
C4_Witness ==
    /\ Returned # {}
    /\ Cardinality(SignaturesIn(results[1]["Job listings page URL"])) = 2
    /\ results[1]["Provider"] = "Personio"

(***************************************************************************)
(* C5: domain guessing probes https://{lowercased name without spaces}.tld *)
(* in the order com, org, io, ai, net, co and returns the first candidate  *)
(* whose probe succeeds: for every set of TLDs that would probe            *)
(* successfully the website is the earliest of them in that order, no      *)
(* candidate after the first success is probed, and the website is empty   *)
(* exactly when none would probe successfully.                             *)
(***************************************************************************)
CandidateOrder ==
    << <<"c","o","m">>, <<"o","r","g">>, <<"i","o">>, <<"a","i">>, <<"n","e","t">>, <<"c","o">> >>
Candidate(name, n) ==
    <<"h","t","t","p","s",":","/","/">>
    \o SelectSeq(lower(strip(name)), LAMBDA c : c # " ") \o <<".">> \o CandidateOrder[n]
FirstLive == IF web.live = {} THEN 0 ELSE CHOOSE n \in web.live : \A m \in web.live : n <= m

\* the requests of step "probe" of company k, in the order they were sent
ProbesOf(k) == SelectSeq(log, LAMBDA e : e.company = k /\ e.step = "probe")

C5_FirstLiveCandidate ==
    \A k \in Entered :
        LET probes == ProbesOf(k)
        IN  /\ \A n \in 1..Len(probes) :
                 /\ n <= Len(CandidateOrder)
                 /\ probes[n].url = Candidate(input[k], n)
                 /\ \A m \in 1..(n - 1) : m \notin web.live
            /\ (k \in Returned \/ pc # "guess") =>
                 /\ Len(probes) = (IF FirstLive = 0 THEN Len(CandidateOrder) ELSE FirstLive)
                 /\ WebsiteOf(k) = (IF FirstLive = 0 THEN <<>> ELSE Candidate(input[k], FirstLive))

\* two TLDs are live, com is not, and the website is the earlier of the two
C5_Witness ==
    /\ Returned # {}
    /\ web.live = {3, 5}
    /\ input[1] = <<" ","a"," ","B","\t">>
    /\ results[1]["Website URL"] = <<"h","t","t","p","s",":","/","/","a","b",".","i","o">>
    /\ Len(ProbesOf(1)) = 3

(***************************************************************************)
(* C6: scrape_jobs_simple returns at most 3 entries, and they are exactly  *)
(* the first (up to 3) anchors in document order that have non-empty       *)
(* visible text matching the job-title pattern and a non-empty href: a     *)
(* matching anchor with an empty href is skipped without counting, an      *)
(* anchor with empty visible text is skipped whatever its href, scanning   *)
(* stops once 3 are collected, and a failed fetch yields no entry.         *)
(***************************************************************************)
\* the positions in a page of the anchors that qualify as job postings
JobAnchors(html) ==
    {n \in 1..Len(html) :
        /\ html[n].has_href /\ html[n].href # <<>>
        /\ strip(html[n].text) # <<>>
        /\ \E w \in JOB_TITLE_WORDS : contains(lower(html[n].text), w)}
\* the m-th of a set of positions, in increasing order
Nth(S, m) == CHOOSE n \in S : Cardinality({x \in S : x < n}) = m - 1

C6_FirstThreeJobAnchors ==
    (pc = "row") =>
        /\ Len(jobs) <= 3
        /\ ~r.ok => jobs = <<>>
        /\ r.ok =>
            LET quals == JobAnchors(r.text)
            IN  /\ Len(jobs) = (IF Cardinality(quals) < 3 THEN Cardinality(quals) ELSE 3)
                /\ \A m \in 1..Len(jobs) :
                    LET a == r.text[Nth(quals, m)]
                    IN  /\ jobs[m].title = strip(a.text)
                        /\ jobs[m].url = (IF startswith(a.href, HTTP) THEN a.href
                                          ELSE urljoin(jobs_url, a.href).value)
                        /\ jobs[m].location = <<>> /\ jobs[m].date = <<>>

\* a page whose first anchor matches but has an empty href, followed by three
\* anchors that qualify: the three are returned
C6_Witness ==
    /\ pc = "row" /\ r.ok
    /\ Len(r.text) = 4
    /\ r.text[1].has_href /\ r.text[1].href = <<>> /\ title_match(r.text[1].text)
    /\ JobAnchors(r.text) = {2, 3, 4}
    /\ Len(jobs) = 3

(***************************************************************************)
(* C8: processing is sequential and order-preserving: a company is fully   *)
(* processed before any request for the next one is issued, the output     *)
(* holds exactly one record per input company in input order, and a prior  *)
(* result set is kept unchanged, in its order, in front of the new records.*)
(***************************************************************************)
C8_SequentialInOrder ==
    /\ \A a, b \in 1..Len(log) : a < b => log[a].company <= log[b].company
    /\ \A n \in 1..Len(log) : log[n].company <= Len(results) + 1
    /\ Len(results) <= Len(input)
    /\ \A k \in Returned : results[k]["Company Name"] = strip(input[k])
    /\ (pc = "done") =>
        LET old == IF existing.exists THEN existing.rows ELSE <<>>
        IN  /\ Len(output.rows) = Len(old) + Len(input)
            /\ \A j \in 1..Len(old) : output.rows[j] = old[j]
            /\ \A k \in 1..Len(input) :
                /\ output.rows[Len(old) + k] = results[k]
                /\ output.rows[Len(old) + k]["Company Name"] = strip(input[k])

\* two different companies were processed, both sent requests, and the rows were
\* written behind those of a prior file
C8_Witness ==
    /\ pc = "done"
    /\ existing.exists
    /\ Len(input) = 2 /\ strip(input[1]) # strip(input[2])
    /\ RequestsOf(1) # {} /\ RequestsOf(2) # {}
    /\ Len(output.rows) = 4

(***************************************************************************)
(* C9: if no TLD candidate probes successfully, the returned record has    *)
(* Website URL, Careers Page URL, Job listings page URL and Provider empty *)
(* and all three job-posting slots empty.                                  *)
(***************************************************************************)
C9_NothingWithoutWebsite ==
    \A k \in Returned :
        (\A n \in StepOf(k, "probe") : Failed(log[n])) =>
            /\ results[k]["Website URL"] = <<>>
            /\ results[k]["Careers Page URL"] = <<>>
            /\ results[k]["Job listings page URL"] = <<>>
            /\ results[k]["Provider"] = ""
            /\ \A s \in 1..3 : EmptySlot(results[k], s)

\* all six candidates were probed, all failed, and the row is returned
C9_Witness ==
    /\ Returned # {}
    /\ Cardinality(StepOf(1, "probe")) = 6
    /\ \A n \in StepOf(1, "probe") : Failed(log[n])

\* what C10 says of the requests of one run of process_company, the LinkedIn URL aside
RequestDiscipline(k) ==
    /\ \A a, b \in RequestsOf(k) : (log[a].method = "HEAD" /\ log[b].method = "GET") => a < b
    /\ Cardinality({n \in RequestsOf(k) : log[n].method = "HEAD"}) <= 6
    /\ Cardinality({n \in RequestsOf(k) : log[n].method = "GET"}) <= 2
    /\ \A g \in RequestsOf(k) :
        log[g].method = "GET" =>
            \E h \in StepOf(k, "probe") :
                /\ h < g /\ ~Failed(log[h])
                /\ \/ log[g].url = log[h].url
                   \/ /\ log[g].step = "listings"
                      /\ CareersOf(k) # <<>> /\ log[g].url = CareersOf(k)
    /\ \A g \in StepOf(k, "listings") : \E h \in StepOf(k, "homepage") : h < g

(***************************************************************************)
(* C10, as stated: in one run of process_company all HEAD probes precede   *)
(* all GET fetches; at most 6 probes and at most 2 fetches are issued; a   *)
(* GET is issued only after some probe has succeeded and only to the       *)
(* successfully probed website or to the careers URL discovered from its   *)
(* homepage; the listings GET follows the homepage GET; and no request is  *)
(* ever sent to the synthesized LinkedIn URL.                              *)
(***************************************************************************)
C10_NoRequestToLinkedin ==
    \A k \in Entered :
        /\ RequestDiscipline(k)
        /\ \A n \in RequestsOf(k) : log[n].url # LinkedinOf(k)

(***************************************************************************)
(* C10, amended: as stated, except that the synthesized LinkedIn URL is    *)
(* never probed and never fetched as the homepage; a request goes to it    *)
(* only as the listings GET, when the careers link discovered on the       *)
(* homepage is that very URL.                                              *)
(***************************************************************************)
C10_RequestDiscipline ==
    \A k \in Entered :
        /\ RequestDiscipline(k)
        /\ \A n \in RequestsOf(k) :
            log[n].url = LinkedinOf(k) =>
                (log[n].step = "listings" /\ log[n].url = CareersOf(k))

\* six probes were not needed, two fetches were issued, the second to a careers
\* URL that is the LinkedIn URL of the company
C10_Witness ==
    /\ Returned # {}
    /\ Cardinality(StepOf(1, "homepage")) = 1
    /\ \E n \in StepOf(1, "listings") :
        log[n].url = results[1]["Linkedin URL"] /\ log[n].url = results[1]["Careers Page URL"]

====
